---- MODULE Spec2Model ----
(***************************************************************************)
(* Packet lifecycle of x/ibc/04-channel (keeper/packet.go): SendPacket,    *)
(* RecvPacket, PacketExecuted, AcknowledgePacket and CleanupPacket over    *)
(* the channel registry, the sequence counters and the commitment stores   *)
(* of two ledgers.  Ledger "A" holds the sending channel end, ledger "B"   *)
(* the receiving end; the verification collaborator of one ledger reads    *)
(* the stores of the other.                                                *)
(***************************************************************************)
EXTENDS Integers, Sequences, FiniteSets, TLC

\* Largest packet sequence number the callers supply.
MaxSeq == 2
\* Width in bits of the sequence counters (uint64 in the code, scaled down).
SeqBits == 3
\* Counters are kept modulo SeqModulus: the Go ++ on an unsigned integer wraps.
SeqModulus == 2 ^ SeqBits

Chains == {"A", "B"}
SrcChain == "A"
DstChain == "B"
CounterpartyChain(c) == IF c = "A" THEN "B" ELSE "A"

PortIDs == {"transfer", "bank"}
ChannelIDs == {"chanA", "chanB"}
ChanKeys == PortIDs \X ChannelIDs
ConnectionID == "connection"
ClientID == "client"

\* The channel end each ledger owns, and the end it names as counterparty.
OwnEnd(c) == IF c = "A" THEN <<"transfer", "chanA">> ELSE <<"transfer", "chanB">>

OK == "OK"

States == {"INIT", "TRYOPEN", "OPEN", "CLOSED"}
\* "NONE" is the zero value of the ordering enum (neither ORDERED nor UNORDERED).
Orders == {"NONE", "UNORDERED", "ORDERED"}
ConnectionStates == {"UNINITIALIZED", "INIT", "TRYOPEN", "OPEN"}

Seqs == 1..MaxSeq
PacketData == {"d1", "d2"}
TimeoutHeights == {1, 2, 3}
\* NilAck is the nil acknowledgement (no acknowledgement was produced).
NilAck == "nil"
Acks == {NilAck, "ack1"}
\* The acknowledgements an application produces for a delivered packet.
ExecutedAcks == {"ack1", "ack2"}
\* No call is returning.
NoCall == [op |-> "none"]
\* What an operation returns in place of a packet when it fails (Go nil).
NilPacket == [nil |-> TRUE]
\* Empty byte string: what the commitment store returns for an absent key.
NilBytes == <<>>

NewPacket(data, sequence, sourcePort, sourceChannel, destinationPort, destinationChannel, timeoutHeight) ==
    [sequence |-> sequence, sourcePort |-> sourcePort, sourceChannel |-> sourceChannel,
     destinationPort |-> destinationPort, destinationChannel |-> destinationChannel,
     data |-> data, timeoutHeight |-> timeoutHeight]

\* Packets the callers supply.  On the route between the two channel ends:
\* every sequence, payload and timeout.  Besides these, one packet per routing
\* field that names another port or channel, and one structurally invalid
\* packet (sequence 0).
RoutedPacket(data, sequence, timeoutHeight) ==
    NewPacket(data, sequence, "transfer", "chanA", "transfer", "chanB", timeoutHeight)
RoutedPackets ==
    { RoutedPacket(d, s, t) : d \in PacketData, s \in Seqs, t \in TimeoutHeights }
MisroutedPackets ==
    { NewPacket("d1", 1, "bank", "chanA", "transfer", "chanB", 3),
      NewPacket("d1", 1, "transfer", "chanB", "transfer", "chanB", 3),
      NewPacket("d1", 1, "transfer", "chanA", "bank", "chanB", 3),
      NewPacket("d1", 1, "transfer", "chanA", "transfer", "chanA", 3) }
MalformedPackets ==
    { RoutedPacket("d1", 0, 3), NewPacket("d1", 0, "bank", "chanA", "transfer", "chanB", 3) }
\* SendPacket is handed packets by the application: it validates their structure.
\* The other operations are handed packets of relayed messages, which were
\* validated when the message was decoded.
RelayedPackets == RoutedPackets \cup MisroutedPackets
Packets == RelayedPackets \cup MalformedPackets

VARIABLES
    channels,           \* Channel Registry: chain -> [stored (port, channel) keys -> Channel]
    connections,        \* connection keeper: chain -> [stored connection ids -> ConnectionEnd]
    clientStates,       \* client keeper: chain -> [stored client ids -> ClientState]
    blockHeight,        \* ctx.BlockHeight() of each chain
    nextSequenceSend,   \* chain -> [stored (port, channel) keys -> counter]
    nextSequenceRecv,
    nextSequenceAck,
    packetCommitments,  \* chain -> [stored <<port, channel, seq>> keys -> digest]
    packetAcks,         \* chain -> [stored <<port, channel, seq>> keys -> digest]
    last,               \* the call that has just returned: operation, arguments, results;
                        \* NoCall once the caller has taken the results
    cleaned,            \* keys <<port, channel, seq>> for which CleanupPacket succeeded
    received,           \* packet returned by RecvPacket when it was the last call, else NilPacket
    delivered,          \* keys for which RecvPacket, then PacketExecuted, succeeded
    redelivered,        \* keys for which that pair succeeded more than once
    validated           \* the last Channel handed to ValidateBasic, and the error returned

config == <<channels, connections, clientStates, blockHeight>>
counters == <<nextSequenceSend, nextSequenceRecv, nextSequenceAck>>
stores == <<nextSequenceSend, nextSequenceRecv, nextSequenceAck, packetCommitments, packetAcks>>
history == <<received, delivered, redelivered, validated>>
vars == <<channels, connections, clientStates, blockHeight, nextSequenceSend, nextSequenceRecv,
          nextSequenceAck, packetCommitments, packetAcks, last, cleaned, received, delivered,
          redelivered, validated>>

----
\* Digests (types.CommitPacket, types.CommitAcknowledgement): deterministic and
\* collision-free, and never the empty byte string.
CommitPacket(data) == <<"packet", data>>
CommitAcknowledgement(ack) == <<"ack", ack>>

\* Structural validation of the packet's own fields.
ValidateBasic(packet) == packet.sequence # 0 /\ packet.timeoutHeight # 0

\* Keeper accessors: found-flag and value, as the Go getters return them.
HasChannel(c, portID, channelID) == <<portID, channelID>> \in DOMAIN channels[c]
GetChannel(c, portID, channelID) == channels[c][<<portID, channelID>>]
HasNextSequenceSend(c, portID, channelID) == <<portID, channelID>> \in DOMAIN nextSequenceSend[c]
GetNextSequenceSend(c, portID, channelID) == nextSequenceSend[c][<<portID, channelID>>]
HasNextSequenceRecv(c, portID, channelID) == <<portID, channelID>> \in DOMAIN nextSequenceRecv[c]
GetNextSequenceRecv(c, portID, channelID) == nextSequenceRecv[c][<<portID, channelID>>]
GetPacketCommitment(c, portID, channelID, sequence) ==
    IF <<portID, channelID, sequence>> \in DOMAIN packetCommitments[c]
    THEN packetCommitments[c][<<portID, channelID, sequence>>] ELSE NilBytes
GetPacketAcknowledgement(c, portID, channelID, sequence) ==
    IF <<portID, channelID, sequence>> \in DOMAIN packetAcks[c]
    THEN packetAcks[c][<<portID, channelID, sequence>>] ELSE NilBytes
HasConnection(c, connectionID) == connectionID \in DOMAIN connections[c]
GetConnection(c, connectionID) == connections[c][connectionID]
HasClientState(c, clientID) == clientID \in DOMAIN clientStates[c]
GetClientState(c, clientID) == clientStates[c][clientID]

\* Store f with key k set to v (k need not be in the domain yet).
Put(f, k, v) == [x \in (DOMAIN f) \cup {k} |-> IF x = k THEN v ELSE f[x]]
\* Store f with key k deleted.
Del(f, k) == [x \in (DOMAIN f) \ {k} |-> f[x]]

\* Verification collaborator: a claim is substantiated iff the counterparty
\* ledger's state holds it (the relayer supplies the proof of whatever is there).
VerifyPacketCommitment(c, portID, channelID, sequence, commitment) ==
    GetPacketCommitment(CounterpartyChain(c), portID, channelID, sequence) = commitment
VerifyPacketAcknowledgement(c, portID, channelID, sequence, ackBytes) ==
    GetPacketAcknowledgement(CounterpartyChain(c), portID, channelID, sequence)
        = CommitAcknowledgement(ackBytes)
VerifyNextSequenceRecv(c, portID, channelID, nextSeqRecv) ==
    /\ HasNextSequenceRecv(CounterpartyChain(c), portID, channelID)
    /\ GetNextSequenceRecv(CounterpartyChain(c), portID, channelID) = nextSeqRecv

----
\* Mutant: a timeout check that lets through a packet whose timeout height is
\* the client's latest height.
SendTimeoutPassedStrictly(clientState, packet) == clientState.latestHeight > packet.timeoutHeight

\* The packet has already timed out on the receiving chain, as far as the
\* sending chain's client knows.
SendTimeoutPassed(clientState, packet) == clientState.latestHeight >= packet.timeoutHeight

\* The packet has timed out at the receiving chain's current height.
RecvTimeoutPassed(c, packet) == blockHeight[c] >= packet.timeoutHeight

\* Mutant: AcknowledgePacket without the comparison of the stored commitment.
AcknowledgeCommitmentUnchecked(c, packet) == TRUE

\* bytes.Equal(commitment, types.CommitPacket(packet.GetData())): the chain
\* sent the packet and has not cleared it out yet.
AcknowledgeCommitmentMatches(c, packet) ==
    GetPacketCommitment(c, packet.sourcePort, packet.sourceChannel, packet.sequence)
        = CommitPacket(packet.data)
CleanupCommitmentMatches(c, packet) ==
    GetPacketCommitment(c, packet.sourcePort, packet.sourceChannel, packet.sequence)
        = CommitPacket(packet.data)

\* Mutant: CleanupPacket that does not consult the verification collaborator.
CleanupVerifyUnchecked(c, channel, packet, nextSeqRecv, acknowledgement) ==
    IF channel.ordering \in {"ORDERED", "UNORDERED"} THEN OK ELSE "PanicInvalidChannelOrdering"

\* Mutant: CleanupPacket whose switch treats any ordering but UNORDERED as ORDERED.
CleanupVerifyDefaultsToOrdered(c, channel, packet, nextSeqRecv, acknowledgement) ==
    IF channel.ordering = "UNORDERED"
    THEN IF VerifyPacketAcknowledgement(c, packet.destinationPort, packet.destinationChannel,
                                        packet.sequence, acknowledgement)
         THEN OK ELSE "ErrVerification"
    ELSE IF VerifyNextSequenceRecv(c, packet.destinationPort, packet.destinationChannel,
                                   nextSeqRecv)
         THEN OK ELSE "ErrVerification"

\* CleanupPacket's switch on the channel ordering: the verification it asks for
\* and what comes of it.
CleanupVerify(c, channel, packet, nextSeqRecv, acknowledgement) ==
    IF channel.ordering = "ORDERED"
    THEN IF VerifyNextSequenceRecv(c, packet.destinationPort, packet.destinationChannel,
                                   nextSeqRecv)
         THEN OK ELSE "ErrVerification"
    ELSE IF channel.ordering = "UNORDERED"
    THEN IF VerifyPacketAcknowledgement(c, packet.destinationPort, packet.destinationChannel,
                                        packet.sequence, acknowledgement)
         THEN OK ELSE "ErrVerification"
    ELSE "PanicInvalidChannelOrdering"

\* Mutant: SendPacket without the check of the channel state.
SendPacketErrIgnoresClosed(c, packet) ==
    IF ~ValidateBasic(packet) THEN "ErrInvalidPacketBasic" ELSE
    IF ~HasChannel(c, packet.sourcePort, packet.sourceChannel) THEN "ErrChannelNotFound" ELSE
    LET channel == GetChannel(c, packet.sourcePort, packet.sourceChannel) IN
    IF packet.destinationPort # channel.counterparty.portID THEN "ErrInvalidPacket" ELSE
    IF packet.destinationChannel # channel.counterparty.channelID THEN "ErrInvalidPacket" ELSE
    IF ~HasConnection(c, channel.connectionHops[1]) THEN "ErrConnectionNotFound" ELSE
    LET connectionEnd == GetConnection(c, channel.connectionHops[1]) IN
    IF connectionEnd.state = "UNINITIALIZED" THEN "ErrInvalidConnectionState" ELSE
    IF ~HasClientState(c, connectionEnd.clientID) THEN "ErrConsensusStateNotFound" ELSE
    LET clientState == GetClientState(c, connectionEnd.clientID) IN
    IF SendTimeoutPassed(clientState, packet) THEN "ErrPacketTimeout" ELSE
    IF ~HasNextSequenceSend(c, packet.sourcePort, packet.sourceChannel)
    THEN "ErrSequenceSendNotFound" ELSE
    IF packet.sequence # GetNextSequenceSend(c, packet.sourcePort, packet.sourceChannel)
    THEN "ErrInvalidPacket" ELSE
    OK

\* Mutant: SendPacket that looks at the sequence counter before the client's
\* height.
SendPacketErrSequenceFirst(c, packet) ==
    IF ~ValidateBasic(packet) THEN "ErrInvalidPacketBasic" ELSE
    IF ~HasChannel(c, packet.sourcePort, packet.sourceChannel) THEN "ErrChannelNotFound" ELSE
    LET channel == GetChannel(c, packet.sourcePort, packet.sourceChannel) IN
    IF channel.state = "CLOSED" THEN "ErrInvalidChannelState" ELSE
    IF packet.destinationPort # channel.counterparty.portID THEN "ErrInvalidPacket" ELSE
    IF packet.destinationChannel # channel.counterparty.channelID THEN "ErrInvalidPacket" ELSE
    IF ~HasConnection(c, channel.connectionHops[1]) THEN "ErrConnectionNotFound" ELSE
    LET connectionEnd == GetConnection(c, channel.connectionHops[1]) IN
    IF connectionEnd.state = "UNINITIALIZED" THEN "ErrInvalidConnectionState" ELSE
    IF ~HasNextSequenceSend(c, packet.sourcePort, packet.sourceChannel)
    THEN "ErrSequenceSendNotFound" ELSE
    IF packet.sequence # GetNextSequenceSend(c, packet.sourcePort, packet.sourceChannel)
    THEN "ErrInvalidPacket" ELSE
    IF ~HasClientState(c, connectionEnd.clientID) THEN "ErrConsensusStateNotFound" ELSE
    LET clientState == GetClientState(c, connectionEnd.clientID) IN
    IF SendTimeoutPassed(clientState, packet) THEN "ErrPacketTimeout" ELSE
    OK

\* Mutant: SendPacket that, like the other operations, wants the channel OPEN.
SendPacketErrRequiresOpen(c, packet) ==
    IF ~ValidateBasic(packet) THEN "ErrInvalidPacketBasic" ELSE
    IF ~HasChannel(c, packet.sourcePort, packet.sourceChannel) THEN "ErrChannelNotFound" ELSE
    LET channel == GetChannel(c, packet.sourcePort, packet.sourceChannel) IN
    IF channel.state # "OPEN" THEN "ErrInvalidChannelState" ELSE
    IF packet.destinationPort # channel.counterparty.portID THEN "ErrInvalidPacket" ELSE
    IF packet.destinationChannel # channel.counterparty.channelID THEN "ErrInvalidPacket" ELSE
    IF ~HasConnection(c, channel.connectionHops[1]) THEN "ErrConnectionNotFound" ELSE
    LET connectionEnd == GetConnection(c, channel.connectionHops[1]) IN
    IF connectionEnd.state = "UNINITIALIZED" THEN "ErrInvalidConnectionState" ELSE
    IF ~HasClientState(c, connectionEnd.clientID) THEN "ErrConsensusStateNotFound" ELSE
    LET clientState == GetClientState(c, connectionEnd.clientID) IN
    IF SendTimeoutPassed(clientState, packet) THEN "ErrPacketTimeout" ELSE
    IF ~HasNextSequenceSend(c, packet.sourcePort, packet.sourceChannel)
    THEN "ErrSequenceSendNotFound" ELSE
    IF packet.sequence # GetNextSequenceSend(c, packet.sourcePort, packet.sourceChannel)
    THEN "ErrInvalidPacket" ELSE
    OK

\* SendPacket: the error returned, the checks in the order of the code.
SendPacketErr(c, packet) ==
    IF ~ValidateBasic(packet) THEN "ErrInvalidPacketBasic" ELSE
    IF ~HasChannel(c, packet.sourcePort, packet.sourceChannel) THEN "ErrChannelNotFound" ELSE
    LET channel == GetChannel(c, packet.sourcePort, packet.sourceChannel) IN
    IF channel.state = "CLOSED" THEN "ErrInvalidChannelState" ELSE
    IF packet.destinationPort # channel.counterparty.portID THEN "ErrInvalidPacket" ELSE
    IF packet.destinationChannel # channel.counterparty.channelID THEN "ErrInvalidPacket" ELSE
    IF ~HasConnection(c, channel.connectionHops[1]) THEN "ErrConnectionNotFound" ELSE
    LET connectionEnd == GetConnection(c, channel.connectionHops[1]) IN
    IF connectionEnd.state = "UNINITIALIZED" THEN "ErrInvalidConnectionState" ELSE
    IF ~HasClientState(c, connectionEnd.clientID) THEN "ErrConsensusStateNotFound" ELSE
    LET clientState == GetClientState(c, connectionEnd.clientID) IN
    IF SendTimeoutPassed(clientState, packet) THEN "ErrPacketTimeout" ELSE
    IF ~HasNextSequenceSend(c, packet.sourcePort, packet.sourceChannel)
    THEN "ErrSequenceSendNotFound" ELSE
    IF packet.sequence # GetNextSequenceSend(c, packet.sourcePort, packet.sourceChannel)
    THEN "ErrInvalidPacket" ELSE
    OK

\* Mutant: SendPacket that records the commitment but does not store the
\* incremented next-send counter.
SendPacketNoIncrement(c, packet) ==
    LET err == SendPacketErr(c, packet)
        key == <<packet.sourcePort, packet.sourceChannel>>
    IN  /\ IF err = OK
           THEN packetCommitments' =
                    [packetCommitments EXCEPT ![c] =
                        Put(@, <<key[1], key[2], packet.sequence>>, CommitPacket(packet.data))]
           ELSE UNCHANGED packetCommitments
        /\ last' = [op |-> "SendPacket", packet |-> packet, err |-> err]
        /\ UNCHANGED <<config, counters, packetAcks, cleaned>>

\* Mutant: SendPacket that starts a missing next-send counter at 1 instead of
\* only reporting it.
SendPacketCreatesCounter(c, packet) ==
    LET err == SendPacketErr(c, packet)
        key == <<packet.sourcePort, packet.sourceChannel>>
    IN  /\ IF err = OK
           THEN /\ nextSequenceSend' =
                      [nextSequenceSend EXCEPT ![c][key] = (nextSequenceSend[c][key] + 1) % SeqModulus]
                /\ packetCommitments' =
                      [packetCommitments EXCEPT ![c] =
                          Put(@, <<key[1], key[2], packet.sequence>>, CommitPacket(packet.data))]
           ELSE /\ nextSequenceSend' =
                      IF err = "ErrSequenceSendNotFound"
                      THEN [nextSequenceSend EXCEPT ![c] = Put(@, key, 1)]
                      ELSE nextSequenceSend
                /\ UNCHANGED packetCommitments
        /\ last' = [op |-> "SendPacket", packet |-> packet, err |-> err]
        /\ UNCHANGED <<config, nextSequenceRecv, nextSequenceAck, packetAcks, cleaned>>

SendPacket(c, packet) ==
    LET err == SendPacketErr(c, packet)
        key == <<packet.sourcePort, packet.sourceChannel>>
    IN  /\ IF err = OK
           THEN /\ nextSequenceSend' =
                      [nextSequenceSend EXCEPT ![c][key] = (nextSequenceSend[c][key] + 1) % SeqModulus]
                /\ packetCommitments' =
                      [packetCommitments EXCEPT ![c] =
                          Put(@, <<key[1], key[2], packet.sequence>>, CommitPacket(packet.data))]
           ELSE UNCHANGED <<nextSequenceSend, packetCommitments>>
        /\ last' = [op |-> "SendPacket", packet |-> packet, err |-> err]
        /\ UNCHANGED <<config, nextSequenceRecv, nextSequenceAck, packetAcks, cleaned>>

\* RecvPacket: the error returned.
RecvPacketErr(c, packet) ==
    IF ~HasChannel(c, packet.destinationPort, packet.destinationChannel)
    THEN "ErrChannelNotFound" ELSE
    LET channel == GetChannel(c, packet.destinationPort, packet.destinationChannel) IN
    IF channel.state # "OPEN" THEN "ErrInvalidChannelState" ELSE
    IF packet.sourcePort # channel.counterparty.portID THEN "ErrInvalidPacket" ELSE
    IF packet.sourceChannel # channel.counterparty.channelID THEN "ErrInvalidPacket" ELSE
    IF ~HasConnection(c, channel.connectionHops[1]) THEN "ErrConnectionNotFound" ELSE
    LET connectionEnd == GetConnection(c, channel.connectionHops[1]) IN
    IF connectionEnd.state # "OPEN" THEN "ErrInvalidConnectionState" ELSE
    IF RecvTimeoutPassed(c, packet) THEN "ErrPacketTimeout" ELSE
    IF ~VerifyPacketCommitment(c, packet.sourcePort, packet.sourceChannel, packet.sequence,
                               CommitPacket(packet.data))
    THEN "ErrVerification" ELSE
    OK

\* RecvPacket returns (packet, nil) or (nil, err).
RecvPacketRet(c, packet) == IF RecvPacketErr(c, packet) = OK THEN packet ELSE NilPacket

\* Mutant: RecvPacket that advances the next-receive counter itself.
RecvPacketAdvancesCounter(c, packet) ==
    LET key == <<packet.destinationPort, packet.destinationChannel>> IN
    /\ IF RecvPacketErr(c, packet) = OK /\ HasNextSequenceRecv(c, key[1], key[2])
       THEN nextSequenceRecv' =
                [nextSequenceRecv EXCEPT ![c][key] = nextSequenceRecv[c][key] + 1]
       ELSE UNCHANGED nextSequenceRecv
    /\ last' = [op |-> "RecvPacket", packet |-> packet, err |-> RecvPacketErr(c, packet),
                ret |-> RecvPacketRet(c, packet)]
    /\ UNCHANGED <<config, nextSequenceSend, nextSequenceAck, packetCommitments, packetAcks,
                   cleaned>>

RecvPacket(c, packet) ==
    /\ last' = [op |-> "RecvPacket", packet |-> packet, err |-> RecvPacketErr(c, packet),
                ret |-> RecvPacketRet(c, packet)]
    /\ UNCHANGED <<config, stores, cleaned>>

\* Mutant: PacketExecuted that does not compare the packet's sequence with the
\* next-receive counter.
PacketExecutedErrAnySequence(c, packet, acknowledgement) ==
    IF ~HasChannel(c, packet.destinationPort, packet.destinationChannel)
    THEN "ErrChannelNotFound" ELSE
    LET channel == GetChannel(c, packet.destinationPort, packet.destinationChannel) IN
    IF channel.state # "OPEN" THEN "ErrInvalidChannelState" ELSE
    IF channel.ordering # "ORDERED" THEN OK ELSE
    IF ~HasNextSequenceRecv(c, packet.destinationPort, packet.destinationChannel)
    THEN "ErrSequenceReceiveNotFound" ELSE
    OK

\* PacketExecuted: the error returned.
PacketExecutedErr(c, packet, acknowledgement) ==
    IF ~HasChannel(c, packet.destinationPort, packet.destinationChannel)
    THEN "ErrChannelNotFound" ELSE
    LET channel == GetChannel(c, packet.destinationPort, packet.destinationChannel) IN
    IF channel.state # "OPEN" THEN "ErrInvalidChannelState" ELSE
    IF channel.ordering # "ORDERED" THEN OK ELSE
    IF ~HasNextSequenceRecv(c, packet.destinationPort, packet.destinationChannel)
    THEN "ErrSequenceReceiveNotFound" ELSE
    IF packet.sequence # GetNextSequenceRecv(c, packet.destinationPort, packet.destinationChannel)
    THEN "ErrInvalidPacket" ELSE
    OK

\* Mutant: PacketExecuted that stores an acknowledgement commitment only when an
\* acknowledgement was given, whatever the ordering.
PacketExecutedWritesGivenAck(c, packet, acknowledgement) ==
    /\ HasChannel(c, packet.destinationPort, packet.destinationChannel)
    /\ GetChannel(c, packet.destinationPort, packet.destinationChannel).state = "OPEN"
    /\ acknowledgement # NilAck

\* PacketExecuted reaches SetPacketAcknowledgement: the channel is found and OPEN,
\* and an acknowledgement was given or the channel is UNORDERED.  The write comes
\* before the ORDERED channel's sequence checks.
PacketExecutedWritesAck(c, packet, acknowledgement) ==
    /\ HasChannel(c, packet.destinationPort, packet.destinationChannel)
    /\ GetChannel(c, packet.destinationPort, packet.destinationChannel).state = "OPEN"
    /\ \/ acknowledgement # NilAck
       \/ GetChannel(c, packet.destinationPort, packet.destinationChannel).ordering = "UNORDERED"

PacketExecuted(c, packet, acknowledgement) ==
    LET err == PacketExecutedErr(c, packet, acknowledgement)
        key == <<packet.destinationPort, packet.destinationChannel>>
        seqKey == <<packet.destinationPort, packet.destinationChannel, packet.sequence>>
    IN  /\ IF PacketExecutedWritesAck(c, packet, acknowledgement)
           THEN packetAcks' = [packetAcks EXCEPT ![c] =
                                  Put(@, seqKey, CommitAcknowledgement(acknowledgement))]
           ELSE UNCHANGED packetAcks
        /\ IF err = OK /\ GetChannel(c, key[1], key[2]).ordering = "ORDERED"
           THEN nextSequenceRecv' =
                    [nextSequenceRecv EXCEPT ![c][key] = (nextSequenceRecv[c][key] + 1) % SeqModulus]
           ELSE UNCHANGED nextSequenceRecv
        /\ last' = [op |-> "PacketExecuted", packet |-> packet,
                    acknowledgement |-> acknowledgement, err |-> err]
        /\ UNCHANGED <<config, nextSequenceSend, nextSequenceAck, packetCommitments, cleaned>>

\* Mutant: AcknowledgePacket that takes the acknowledgements of an ORDERED
\* channel in the order of the next-acknowledge counter.
AcknowledgePacketErrInOrder(c, packet, acknowledgement) ==
    IF ~HasChannel(c, packet.sourcePort, packet.sourceChannel) THEN "ErrChannelNotFound" ELSE
    LET channel == GetChannel(c, packet.sourcePort, packet.sourceChannel) IN
    IF channel.state # "OPEN" THEN "ErrInvalidChannelState" ELSE
    IF packet.destinationPort # channel.counterparty.portID THEN "ErrInvalidPacket" ELSE
    IF packet.destinationChannel # channel.counterparty.channelID THEN "ErrInvalidPacket" ELSE
    IF ~HasConnection(c, channel.connectionHops[1]) THEN "ErrConnectionNotFound" ELSE
    LET connectionEnd == GetConnection(c, channel.connectionHops[1]) IN
    IF connectionEnd.state # "OPEN" THEN "ErrInvalidConnectionState" ELSE
    IF ~AcknowledgeCommitmentMatches(c, packet) THEN "ErrInvalidPacket" ELSE
    IF /\ channel.ordering = "ORDERED"
       /\ \/ <<packet.sourcePort, packet.sourceChannel>> \notin DOMAIN nextSequenceAck[c]
          \/ packet.sequence # nextSequenceAck[c][<<packet.sourcePort, packet.sourceChannel>>]
    THEN "ErrInvalidPacket" ELSE
    IF acknowledgement = NilAck THEN "PanicNilAcknowledgement" ELSE
    IF ~VerifyPacketAcknowledgement(c, packet.destinationPort, packet.destinationChannel,
                                    packet.sequence, acknowledgement)
    THEN "ErrVerification" ELSE
    OK

\* AcknowledgePacket: the error returned.  A nil acknowledgement makes
\* acknowledgement.GetBytes() a call on a nil interface: the Go runtime panics.
AcknowledgePacketErr(c, packet, acknowledgement) ==
    IF ~HasChannel(c, packet.sourcePort, packet.sourceChannel) THEN "ErrChannelNotFound" ELSE
    LET channel == GetChannel(c, packet.sourcePort, packet.sourceChannel) IN
    IF channel.state # "OPEN" THEN "ErrInvalidChannelState" ELSE
    IF packet.destinationPort # channel.counterparty.portID THEN "ErrInvalidPacket" ELSE
    IF packet.destinationChannel # channel.counterparty.channelID THEN "ErrInvalidPacket" ELSE
    IF ~HasConnection(c, channel.connectionHops[1]) THEN "ErrConnectionNotFound" ELSE
    LET connectionEnd == GetConnection(c, channel.connectionHops[1]) IN
    IF connectionEnd.state # "OPEN" THEN "ErrInvalidConnectionState" ELSE
    IF ~AcknowledgeCommitmentMatches(c, packet) THEN "ErrInvalidPacket" ELSE
    IF acknowledgement = NilAck THEN "PanicNilAcknowledgement" ELSE
    IF ~VerifyPacketAcknowledgement(c, packet.destinationPort, packet.destinationChannel,
                                    packet.sequence, acknowledgement)
    THEN "ErrVerification" ELSE
    OK

AcknowledgePacketRet(c, packet, acknowledgement) ==
    IF AcknowledgePacketErr(c, packet, acknowledgement) = OK THEN packet ELSE NilPacket

\* Mutant: AcknowledgePacket that cleans up the packet commitment, as its doc
\* comment says.
AcknowledgePacketDeletesCommitment(c, packet, acknowledgement) ==
    /\ IF AcknowledgePacketErr(c, packet, acknowledgement) = OK
       THEN packetCommitments' =
                [packetCommitments EXCEPT ![c] =
                    Del(@, <<packet.sourcePort, packet.sourceChannel, packet.sequence>>)]
       ELSE UNCHANGED packetCommitments
    /\ last' = [op |-> "AcknowledgePacket", packet |-> packet,
                acknowledgement |-> acknowledgement,
                err |-> AcknowledgePacketErr(c, packet, acknowledgement),
                ret |-> AcknowledgePacketRet(c, packet, acknowledgement)]
    /\ UNCHANGED <<config, counters, packetAcks, cleaned>>

AcknowledgePacket(c, packet, acknowledgement) ==
    /\ last' = [op |-> "AcknowledgePacket", packet |-> packet,
                acknowledgement |-> acknowledgement,
                err |-> AcknowledgePacketErr(c, packet, acknowledgement),
                ret |-> AcknowledgePacketRet(c, packet, acknowledgement)]
    /\ UNCHANGED <<config, stores, cleaned>>

\* Mutant: CleanupPacket that accepts a next_sequence_recv equal to the packet's
\* sequence.
CleanupPacketErrNotStrict(c, packet, nextSeqRecv, acknowledgement) ==
    IF ~HasChannel(c, packet.sourcePort, packet.sourceChannel) THEN "ErrChannelNotFound" ELSE
    LET channel == GetChannel(c, packet.sourcePort, packet.sourceChannel) IN
    IF channel.state # "OPEN" THEN "ErrInvalidChannelState" ELSE
    IF packet.destinationPort # channel.counterparty.portID THEN "ErrInvalidPacket" ELSE
    IF packet.destinationChannel # channel.counterparty.channelID THEN "ErrInvalidPacket" ELSE
    IF ~HasConnection(c, channel.connectionHops[1]) THEN "ErrConnectionNotFound" ELSE
    IF nextSeqRecv < packet.sequence THEN "ErrInvalidPacket" ELSE
    IF ~CleanupCommitmentMatches(c, packet) THEN "ErrInvalidPacket" ELSE
    CleanupVerify(c, channel, packet, nextSeqRecv, acknowledgement)

\* CleanupPacket: the error returned; an ordering outside the enum panics.
CleanupPacketErr(c, packet, nextSeqRecv, acknowledgement) ==
    IF ~HasChannel(c, packet.sourcePort, packet.sourceChannel) THEN "ErrChannelNotFound" ELSE
    LET channel == GetChannel(c, packet.sourcePort, packet.sourceChannel) IN
    IF channel.state # "OPEN" THEN "ErrInvalidChannelState" ELSE
    IF packet.destinationPort # channel.counterparty.portID THEN "ErrInvalidPacket" ELSE
    IF packet.destinationChannel # channel.counterparty.channelID THEN "ErrInvalidPacket" ELSE
    IF ~HasConnection(c, channel.connectionHops[1]) THEN "ErrConnectionNotFound" ELSE
    IF nextSeqRecv <= packet.sequence THEN "ErrInvalidPacket" ELSE
    IF ~CleanupCommitmentMatches(c, packet) THEN "ErrInvalidPacket" ELSE
    CleanupVerify(c, channel, packet, nextSeqRecv, acknowledgement)

CleanupPacketRet(c, packet, nextSeqRecv, acknowledgement) ==
    IF CleanupPacketErr(c, packet, nextSeqRecv, acknowledgement) = OK THEN packet ELSE NilPacket

\* Mutant: CleanupPacket that deletes the commitment before the verification,
\* and so also when the verification fails.
CleanupPacketDeletesUnverified(c, packet, nextSeqRecv, acknowledgement) ==
    LET err == CleanupPacketErr(c, packet, nextSeqRecv, acknowledgement)
        seqKey == <<packet.sourcePort, packet.sourceChannel, packet.sequence>>
    IN
    /\ IF err \in {OK, "ErrVerification"}
       THEN packetCommitments' = [packetCommitments EXCEPT ![c] = Del(@, seqKey)]
       ELSE UNCHANGED packetCommitments
    /\ cleaned' = IF err = OK THEN cleaned \cup {seqKey} ELSE cleaned
    /\ last' = [op |-> "CleanupPacket", packet |-> packet, nextSequenceRecv |-> nextSeqRecv,
                acknowledgement |-> acknowledgement, err |-> err,
                ret |-> CleanupPacketRet(c, packet, nextSeqRecv, acknowledgement)]
    /\ UNCHANGED <<config, counters, packetAcks>>

\* Mutant: CleanupPacket that returns the packet without deleting its commitment.
CleanupPacketNoDelete(c, packet, nextSeqRecv, acknowledgement) ==
    LET err == CleanupPacketErr(c, packet, nextSeqRecv, acknowledgement)
        seqKey == <<packet.sourcePort, packet.sourceChannel, packet.sequence>>
    IN
    /\ cleaned' = IF err = OK THEN cleaned \cup {seqKey} ELSE cleaned
    /\ last' = [op |-> "CleanupPacket", packet |-> packet, nextSequenceRecv |-> nextSeqRecv,
                acknowledgement |-> acknowledgement, err |-> err,
                ret |-> CleanupPacketRet(c, packet, nextSeqRecv, acknowledgement)]
    /\ UNCHANGED <<config, stores>>

CleanupPacket(c, packet, nextSeqRecv, acknowledgement) ==
    LET err == CleanupPacketErr(c, packet, nextSeqRecv, acknowledgement)
        seqKey == <<packet.sourcePort, packet.sourceChannel, packet.sequence>>
    IN
    /\ IF err = OK
       THEN /\ packetCommitments' = [packetCommitments EXCEPT ![c] = Del(@, seqKey)]
            /\ cleaned' = cleaned \cup {seqKey}
       ELSE UNCHANGED <<packetCommitments, cleaned>>
    /\ last' = [op |-> "CleanupPacket", packet |-> packet, nextSequenceRecv |-> nextSeqRecv,
                acknowledgement |-> acknowledgement, err |-> err,
                ret |-> CleanupPacketRet(c, packet, nextSeqRecv, acknowledgement)]
    /\ UNCHANGED <<config, counters, packetAcks>>

----
\* A channel end as the handshake stores it: one connection hop, a version, and
\* the other ledger's end as counterparty.
NewChannel(state, ordering, counterparty, hops, version) ==
    [state |-> state, ordering |-> ordering, counterparty |-> counterparty,
     connectionHops |-> hops, version |-> version]
NewCounterparty(portID, channelID) == [portID |-> portID, channelID |-> channelID]

\* How one ledger's end is set up: channel state, connection (state or absent),
\* whether a client state is stored, whether the sequence counters are stored.
Absent == "absent"
EndSetups ==
    [state : States, connection : ConnectionStates \cup {Absent}, client : BOOLEAN,
     sequences : BOOLEAN]
NominalSetup == [state |-> "OPEN", connection |-> "OPEN", client |-> TRUE, sequences |-> TRUE]

\* One field of a setup differs from the nominal one.
Deviates(setup) ==
    Cardinality({f \in DOMAIN setup : setup[f] # NominalSetup[f]}) = 1
NoSequences == [NominalSetup EXCEPT !.sequences = FALSE]
\* Sending ends that fail several preconditions of SendPacket at once.
Unconnected ==
    [state |-> "OPEN", connection |-> "UNINITIALIZED", client |-> FALSE, sequences |-> FALSE]
ClosedUnconnected == [Unconnected EXCEPT !.state = "CLOSED"]
\* The setups checked: both ends nominal under every ordering; on an ORDERED
\* channel, one end deviating in one field, or the sending end in several; on
\* an UNORDERED channel, one end without sequence counters.
Setups ==
    { <<o, NominalSetup, NominalSetup>> : o \in Orders }
    \cup { <<"ORDERED", a, NominalSetup>> : a \in {x \in EndSetups : Deviates(x)} }
    \cup { <<"ORDERED", NominalSetup, b>> : b \in {x \in EndSetups : Deviates(x)} }
    \cup { <<"UNORDERED", NoSequences, NominalSetup>>, <<"UNORDERED", NominalSetup, NoSequences>> }
    \cup { <<"ORDERED", Unconnected, NominalSetup>>, <<"ORDERED", ClosedUnconnected, NominalSetup>> }

InitChannels(c, setup, ordering) ==
    LET other == OwnEnd(CounterpartyChain(c)) IN
    [k \in {OwnEnd(c)} |->
        NewChannel(setup.state, ordering, NewCounterparty(other[1], other[2]),
                   <<ConnectionID>>, "1.0")]
InitConnections(setup) ==
    IF setup.connection = Absent THEN <<>>
    ELSE [k \in {ConnectionID} |-> [state |-> setup.connection, clientID |-> ClientID]]
\* The client on the sending ledger lags one block behind the receiving ledger.
InitClientStates(setup) ==
    IF setup.client THEN [k \in {ClientID} |-> [latestHeight |-> 1]] ELSE <<>>
InitSequences(c, setup) ==
    IF setup.sequences THEN [k \in {OwnEnd(c)} |-> 1] ELSE <<>>

InitSetup(ordering, a, b) ==
    /\ channels = [c \in Chains |-> InitChannels(c, IF c = "A" THEN a ELSE b, ordering)]
    /\ connections = [c \in Chains |-> InitConnections(IF c = "A" THEN a ELSE b)]
    /\ clientStates = [c \in Chains |-> InitClientStates(IF c = "A" THEN a ELSE b)]
    /\ blockHeight = [c \in Chains |-> 2]
    /\ nextSequenceSend = [c \in Chains |-> InitSequences(c, IF c = "A" THEN a ELSE b)]
    /\ nextSequenceRecv = [c \in Chains |-> InitSequences(c, IF c = "A" THEN a ELSE b)]
    /\ nextSequenceAck = [c \in Chains |-> InitSequences(c, IF c = "A" THEN a ELSE b)]
    /\ packetCommitments = [c \in Chains |-> <<>>]
    /\ packetAcks = [c \in Chains |-> <<>>]
    /\ last = NoCall
    /\ cleaned = {}
    /\ received = NilPacket
    /\ delivered = {}
    /\ redelivered = {}
    /\ validated = NoCall

Init == \E setup \in Setups : InitSetup(setup[1], setup[2], setup[3])

\* The caller takes the results of the call; the keeper is ready for the next call.
Return ==
    /\ last # NoCall
    /\ last' = NoCall
    /\ UNCHANGED <<config, stores, cleaned>>

Next ==
    \/ /\ last = NoCall
       /\ \E packet \in Packets : SendPacket(SrcChain, packet)
       /\ UNCHANGED history
    \/ /\ last = NoCall
       /\ \E packet \in RelayedPackets : RecvPacket(DstChain, packet)
       /\ UNCHANGED history
    \/ /\ last = NoCall
       /\ \E packet \in RelayedPackets, ack \in Acks : PacketExecuted(DstChain, packet, ack)
       /\ UNCHANGED history
    \/ /\ last = NoCall
       /\ \E packet \in RelayedPackets, ack \in Acks : AcknowledgePacket(SrcChain, packet, ack)
       /\ UNCHANGED history
    \/ /\ last = NoCall
       /\ \E packet \in RelayedPackets, nextSeqRecv \in 1..(MaxSeq + 1), ack \in Acks :
              CleanupPacket(SrcChain, packet, nextSeqRecv, ack)
       /\ UNCHANGED history
    \/ Return /\ UNCHANGED history

Spec == Init /\ [][Next]_vars

----
\* Delivery bookkeeping: the same operations on a correctly set-up channel, with
\* a record of which packets went through RecvPacket and then PacketExecuted.
InitDelivery ==
    \E ordering \in {"ORDERED", "UNORDERED"} : InitSetup(ordering, NominalSetup, NominalSetup)

\* The calls received', delivered' and redelivered' follow.
Received(packet) ==
    /\ received' = RecvPacketRet(DstChain, packet)
    /\ UNCHANGED <<delivered, redelivered, validated>>
Executed(packet, ack) ==
    LET seqKey == <<packet.destinationPort, packet.destinationChannel, packet.sequence>>
        pair == received = packet /\ PacketExecutedErr(DstChain, packet, ack) = OK
    IN  /\ received' = NilPacket
        /\ delivered' = IF pair THEN delivered \cup {seqKey} ELSE delivered
        /\ redelivered' = IF pair /\ seqKey \in delivered THEN redelivered \cup {seqKey}
                          ELSE redelivered
        /\ UNCHANGED validated
OtherCall == received' = NilPacket /\ UNCHANGED <<delivered, redelivered, validated>>

NextDelivery ==
    \/ /\ last = NoCall
       /\ \E packet \in Packets : SendPacket(SrcChain, packet)
       /\ OtherCall
    \/ /\ last = NoCall
       /\ \E packet \in RelayedPackets : RecvPacket(DstChain, packet) /\ Received(packet)
    \/ /\ last = NoCall
       /\ \E packet \in RelayedPackets, ack \in ExecutedAcks :
              PacketExecuted(DstChain, packet, ack) /\ Executed(packet, ack)
    \/ /\ last = NoCall
       /\ \E packet \in RelayedPackets, ack \in Acks : AcknowledgePacket(SrcChain, packet, ack)
       /\ OtherCall
    \/ /\ last = NoCall
       /\ \E packet \in RelayedPackets, nextSeqRecv \in 1..(MaxSeq + 1), ack \in Acks :
              CleanupPacket(SrcChain, packet, nextSeqRecv, ack)
       /\ OtherCall
    \/ Return /\ UNCHANGED history

SpecDelivery == InitDelivery /\ [][NextDelivery]_vars

----
\* A sending channel end through the whole range of its next-send counter: the
\* application sends packets of every representable sequence number.
LargestSequence == SeqModulus - 1
WrapPackets == { RoutedPacket(data, sequence, 3) : data \in PacketData, sequence \in 0..LargestSequence }

InitWrap == \E ordering \in {"ORDERED", "UNORDERED"} : InitSetup(ordering, NominalSetup, NominalSetup)

NextWrap ==
    \/ /\ last = NoCall
       /\ \E packet \in WrapPackets : SendPacket(SrcChain, packet)
       /\ UNCHANGED history
    \/ Return /\ UNCHANGED history

SpecWrap == InitWrap /\ [][NextWrap]_vars

----
\* Relaying: the application sends packets, a relayer hands each packet sent to
\* RecvPacket on the other ledger, the receiving application executes a packet
\* RecvPacket returned and answers with an acknowledgement, and the relayer
\* takes proofs back for AcknowledgePacket and CleanupPacket.  The timeout
\* height travels in the packet's data: "d1" is good until height 3, "d2" until
\* height 2, which the receiving ledger has reached already.
ReclaimPackets ==
    { RoutedPacket("d1", sequence, 3) : sequence \in Seqs }
        \cup { RoutedPacket("d2", sequence, 2) : sequence \in Seqs }

InitReclaim ==
    \E ordering \in {"ORDERED", "UNORDERED"} : InitSetup(ordering, NominalSetup, NominalSetup)

ReclaimSend ==
    /\ \E packet \in ReclaimPackets : SendPacket(SrcChain, packet)
    /\ UNCHANGED history
Relay(packet) ==
    /\ received = NilPacket
    /\ RecvPacket(DstChain, packet)
    /\ Received(packet)
Execute ==
    /\ received # NilPacket
    /\ PacketExecuted(DstChain, received, "ack1")
    /\ Executed(received, "ack1")
ReclaimAcknowledge ==
    /\ \E packet \in ReclaimPackets : AcknowledgePacket(SrcChain, packet, "ack1")
    /\ UNCHANGED history
ReclaimCleanup ==
    /\ \E packet \in ReclaimPackets, nextSeqRecv \in 1..(MaxSeq + 1) :
          CleanupPacket(SrcChain, packet, nextSeqRecv, "ack1")
    /\ UNCHANGED history

NextReclaim ==
    \/ ReclaimSend
    \/ \E packet \in ReclaimPackets : Relay(packet)
    \/ Execute
    \/ ReclaimAcknowledge
    \/ ReclaimCleanup

\* The relayer keeps trying every packet, and the receiving application
\* finishes the transaction of a packet it was handed.
FairRelay ==
    /\ \A packet \in ReclaimPackets : SF_vars(Relay(packet))
    /\ WF_vars(Execute)

SpecReclaim == InitReclaim /\ [][NextReclaim]_vars /\ FairRelay

----
\* Channel.ValidateBasic on channel records of every shape.  Identifiers and the
\* version are sequences of characters here.

\* Longest version string handed to the validation.
MaxVersionLen == 2
\* String() of a state or ordering: empty for the zero value of the enum.
StateString(state) == IF state \in States THEN state ELSE ""
OrderString(ordering) == IF ordering \in {"ORDERED", "UNORDERED"} THEN ordering ELSE ""

\* host.Default*IdentifierValidator: nil for an identifier that is not empty and
\* has no separator in it.
DefaultIdentifierValidator(id) ==
    IF Len(id) >= 1 /\ \A i \in 1..Len(id) : id[i] # "/" THEN OK ELSE "ErrInvalidID"

\* strings.TrimSpace: the string without its leading and trailing white space.
RECURSIVE TrimLeft(_)
TrimLeft(str) == IF str # <<>> /\ Head(str) = " " THEN TrimLeft(Tail(str)) ELSE str
RECURSIVE TrimRight(_)
TrimRight(str) ==
    IF str # <<>> /\ str[Len(str)] = " " THEN TrimRight(SubSeq(str, 1, Len(str) - 1)) ELSE str
TrimSpace(str) == TrimRight(TrimLeft(str))

CounterpartyValidateBasic(counterparty) ==
    IF DefaultIdentifierValidator(counterparty.portID) # OK THEN "ErrInvalidCounterparty" ELSE
    IF DefaultIdentifierValidator(counterparty.channelID) # OK THEN "ErrInvalidCounterparty" ELSE
    OK

\* Mutant: a validation that asks for at least one connection hop and looks at the
\* first.
ChannelValidateBasicFirstHop(ch) ==
    IF StateString(ch.state) = "" THEN "ErrInvalidChannel" ELSE
    IF OrderString(ch.ordering) = "" THEN "ErrInvalidChannel" ELSE
    IF Len(ch.connectionHops) < 1 THEN "ErrInvalidChannel" ELSE
    IF DefaultIdentifierValidator(ch.connectionHops[1]) # OK THEN "ErrInvalidChannel" ELSE
    IF TrimSpace(ch.version) = <<>> THEN "ErrInvalidChannel" ELSE
    CounterpartyValidateBasic(ch.counterparty)

ChannelValidateBasic(ch) ==
    IF StateString(ch.state) = "" THEN "ErrInvalidChannel" ELSE
    IF OrderString(ch.ordering) = "" THEN "ErrInvalidChannel" ELSE
    IF Len(ch.connectionHops) # 1 THEN "ErrInvalidChannel" ELSE
    IF DefaultIdentifierValidator(ch.connectionHops[1]) # OK THEN "ErrInvalidChannel" ELSE
    IF TrimSpace(ch.version) = <<>> THEN "ErrInvalidChannel" ELSE
    CounterpartyValidateBasic(ch.counterparty)

\* The records validated: every state and ordering with the zero values, no hop,
\* one hop and two, versions of white space and other characters, identifiers
\* empty, plain and with a separator.
Identifiers == { <<>>, <<"a">>, <<"a", "/">> }
Versions == UNION { [1..n -> {" ", "v"}] : n \in 0..MaxVersionLen }
HopLists == { <<>> } \cup { <<id>> : id \in Identifiers }
                \cup { <<(<<"a">>), id>> : id \in Identifiers }
ChannelsToValidate ==
    { NewChannel(state, ordering, NewCounterparty(portID, channelID), hops, version) :
        state \in States \cup {"UNINITIALIZED"}, ordering \in Orders,
        portID \in Identifiers, channelID \in Identifiers, hops \in HopLists,
        version \in Versions }

InitValidate == InitSetup("ORDERED", NominalSetup, NominalSetup)

ValidateChannel(ch) ==
    /\ validated = NoCall
    /\ validated' = [op |-> "ValidateBasic", channel |-> ch, err |-> ChannelValidateBasic(ch)]
    /\ UNCHANGED <<config, stores, last, cleaned, received, delivered, redelivered>>

\* The caller takes the result of the validation.
ValidateReturn ==
    /\ validated # NoCall
    /\ validated' = NoCall
    /\ UNCHANGED <<config, stores, last, cleaned, received, delivered, redelivered>>

NextValidate ==
    \/ \E ch \in ChannelsToValidate : ValidateChannel(ch)
    \/ ValidateReturn

SpecValidate == InitValidate /\ [][NextValidate]_vars

----
\* Vocabulary of the properties below.

\* This step is a call of op: last' holds its arguments and results, the
\* unprimed variables the state it was called in.
Called(op) == last = NoCall /\ last'.op = op

SrcEnd(packet) == <<packet.sourcePort, packet.sourceChannel>>
DstEnd(packet) == <<packet.destinationPort, packet.destinationChannel>>
SrcSeqKey(packet) == <<packet.sourcePort, packet.sourceChannel, packet.sequence>>
DstSeqKey(packet) == <<packet.destinationPort, packet.destinationChannel, packet.sequence>>

\* The packet names the counterparty of the channel end as its destination.
DestinationIsCounterparty(channel, packet) ==
    /\ packet.destinationPort = channel.counterparty.portID
    /\ packet.destinationChannel = channel.counterparty.channelID

\* Preconditions 1-7 of Send hold: the call gets as far as the timeout check.
SendReachesTimeoutCheck(c, packet) ==
    /\ ValidateBasic(packet)
    /\ SrcEnd(packet) \in DOMAIN channels[c]
    /\ channels[c][SrcEnd(packet)].state # "CLOSED"
    /\ DestinationIsCounterparty(channels[c][SrcEnd(packet)], packet)
    /\ ConnectionID \in DOMAIN connections[c]
    /\ connections[c][ConnectionID].state # "UNINITIALIZED"
    /\ ClientID \in DOMAIN clientStates[c]

\* Preconditions 1-9 of Send hold: the call gets as far as the sequence check.
SendReachesSequenceCheck(c, packet) ==
    /\ SendReachesTimeoutCheck(c, packet)
    /\ clientStates[c][ClientID].latestHeight < packet.timeoutHeight
    /\ SrcEnd(packet) \in DOMAIN nextSequenceSend[c]

\* Preconditions 1-6 of Receive hold: the call gets as far as the timeout check.
RecvReachesTimeoutCheck(c, packet) ==
    /\ DstEnd(packet) \in DOMAIN channels[c]
    /\ channels[c][DstEnd(packet)].state = "OPEN"
    /\ packet.sourcePort = channels[c][DstEnd(packet)].counterparty.portID
    /\ packet.sourceChannel = channels[c][DstEnd(packet)].counterparty.channelID
    /\ ConnectionID \in DOMAIN connections[c]
    /\ connections[c][ConnectionID].state = "OPEN"

\* The channel of the packet's source end exists and is OPEN, and its connection
\* is found (and, where mustBeOpen, is OPEN).
SourceChannelUsable(c, packet, mustBeOpen) ==
    /\ SrcEnd(packet) \in DOMAIN channels[c]
    /\ channels[c][SrcEnd(packet)].state = "OPEN"
    /\ ConnectionID \in DOMAIN connections[c]
    /\ mustBeOpen => connections[c][ConnectionID].state = "OPEN"

\* The stored commitment at the packet's key is not the digest of its data.
Tampered(c, packet) ==
    GetPacketCommitment(c, packet.sourcePort, packet.sourceChannel, packet.sequence)
        # CommitPacket(packet.data)

----
\* C1: packets are delivered at most once: for no key (destination port,
\* destination channel, sequence) does a RecvPacket followed by PacketExecuted
\* of the same packet succeed a second time.  (Fails on an UNORDERED channel.)
C1_AtMostOnceDelivery == redelivered = {}

\* C2 as stated: a successful Send consumes exactly the current next-send counter
\* (sets it to sequence + 1 and records the commitment at that sequence), and a
\* Send whose sequence differs from the counter fails with InvalidPacket and
\* leaves every counter unchanged.
C2_SendMonotonicity_AsStated ==
    [][Called("SendPacket") =>
        LET packet == last'.packet
            end == SrcEnd(packet)
        IN  /\ last'.err = OK =>
                /\ packet.sequence = nextSequenceSend[SrcChain][end]
                /\ nextSequenceSend'[SrcChain][end] = packet.sequence + 1
                /\ packetCommitments'[SrcChain][SrcSeqKey(packet)] = CommitPacket(packet.data)
            /\ ( /\ ValidateBasic(packet)
                 /\ end \in DOMAIN nextSequenceSend[SrcChain]
                 /\ packet.sequence # nextSequenceSend[SrcChain][end] ) =>
                /\ last'.err = "ErrInvalidPacket"
                /\ UNCHANGED counters
    ]_vars

\* C2 amended: as above, but the Send whose sequence differs from the counter
\* fails with InvalidPacket only when every earlier precondition of Send holds;
\* in every case it fails and leaves every counter unchanged.
C2_SendMonotonicity ==
    [][Called("SendPacket") =>
        LET packet == last'.packet
            end == SrcEnd(packet)
        IN  /\ last'.err = OK =>
                /\ packet.sequence = nextSequenceSend[SrcChain][end]
                /\ nextSequenceSend'[SrcChain][end] = packet.sequence + 1
                /\ packetCommitments'[SrcChain][SrcSeqKey(packet)] = CommitPacket(packet.data)
            /\ ( /\ end \in DOMAIN nextSequenceSend[SrcChain]
                 /\ packet.sequence # nextSequenceSend[SrcChain][end] ) =>
                /\ last'.err # OK
                /\ UNCHANGED counters
                /\ SendReachesSequenceCheck(SrcChain, packet) => last'.err = "ErrInvalidPacket"
    ]_vars

\* C2 witness: after a first successful Send, a Send that passes every earlier
\* check with another sequence than the counter has failed with InvalidPacket.
C2_Witness ==
    /\ last.op = "SendPacket"
    /\ last.err = "ErrInvalidPacket"
    /\ SendReachesSequenceCheck(SrcChain, last.packet)
    /\ nextSequenceSend[SrcChain][SrcEnd(last.packet)] = 2
    /\ last.packet.sequence # 2

\* C3: on an ORDERED channel, Executed with a packet whose sequence differs from
\* the next-receive counter fails and does not advance the counter, and a
\* successful Executed consumes exactly the counter's value and advances it by
\* one (so the executed sequences are 1, 2, 3, ... in order); on an UNORDERED
\* channel, Executed neither needs nor advances the next-receive counter.
C3_OrderEnforcement ==
    [][Called("PacketExecuted") =>
        LET packet == last'.packet
            end == DstEnd(packet)
        IN  end \in DOMAIN channels[DstChain] =>
            LET channel == channels[DstChain][end] IN
            /\ ( /\ channel.ordering = "ORDERED"
                 /\ end \in DOMAIN nextSequenceRecv[DstChain]
                 /\ packet.sequence # nextSequenceRecv[DstChain][end] ) =>
                    last'.err # OK /\ UNCHANGED nextSequenceRecv
            /\ (channel.ordering = "ORDERED" /\ last'.err = OK) =>
                    /\ packet.sequence = nextSequenceRecv[DstChain][end]
                    /\ nextSequenceRecv'[DstChain][end] = packet.sequence + 1
            /\ channel.ordering = "UNORDERED" =>
                    /\ UNCHANGED nextSequenceRecv
                    /\ channel.state = "OPEN" => last'.err = OK
    ]_vars

\* C3 witness: on an ORDERED channel whose counter has advanced to 2, an Executed
\* with another sequence has failed with InvalidPacket.
C3_Witness ==
    /\ last.op = "PacketExecuted"
    /\ last.err = "ErrInvalidPacket"
    /\ channels[DstChain][DstEnd(last.packet)].ordering = "ORDERED"
    /\ nextSequenceRecv[DstChain][DstEnd(last.packet)] = 2
    /\ last.packet.sequence # 2

\* C3 witness, UNORDERED side: an Executed has succeeded on an UNORDERED channel
\* that stores no next-receive counter.
C3_WitnessUnordered ==
    /\ last.op = "PacketExecuted"
    /\ last.err = OK
    /\ channels[DstChain][DstEnd(last.packet)].ordering = "UNORDERED"
    /\ DstEnd(last.packet) \notin DOMAIN nextSequenceRecv[DstChain]

\* C4: no operation partially mutates state before failing: a call that returns
\* an error leaves the channel registry, the sequence counters, the packet
\* commitments and the acknowledgement commitments as they were.  (Fails:
\* PacketExecuted writes the acknowledgement before its ORDERED checks.)
C4_NoPartialMutation ==
    [][(last = NoCall /\ last' # NoCall /\ last'.err # OK) =>
        UNCHANGED <<channels, nextSequenceSend, nextSequenceRecv, nextSequenceAck,
                    packetCommitments, packetAcks>>
    ]_vars

\* C5: after a successful Cleanup of a packet, no send-side commitment exists at
\* its (source port, source channel, sequence), and every later Cleanup for that
\* key fails with InvalidPacket and changes nothing.
C5_CleanupOnce ==
    [][ /\ \A key \in cleaned' :
              GetPacketCommitment(SrcChain, key[1], key[2], key[3])' = NilBytes
        /\ (Called("CleanupPacket") /\ SrcSeqKey(last'.packet) \in cleaned) =>
              /\ last'.err = "ErrInvalidPacket"
              /\ UNCHANGED <<config, stores>>
    ]_vars

\* C5 witness: a second Cleanup of a sent and cleaned-up packet, with the same
\* payload and a next_sequence_recv beyond it, has failed with InvalidPacket.
C5_Witness ==
    /\ last.op = "CleanupPacket"
    /\ last.err = "ErrInvalidPacket"
    /\ SrcSeqKey(last.packet) \in cleaned
    /\ last.nextSequenceRecv > last.packet.sequence
    /\ DestinationIsCounterparty(channels[SrcChain][SrcEnd(last.packet)], last.packet)

\* C6: Cleanup deletes a send-side commitment only once receipt is proven: when a
\* Cleanup removes the commitment at (source port, source channel, seq), then on
\* an ORDERED channel the counterparty's next-receive counter equals the supplied
\* next_sequence_recv and is greater than seq, and on an UNORDERED channel the
\* counterparty holds the supplied acknowledgement's commitment at (destination
\* port, destination channel, seq); and only Cleanup removes commitments.
C6_CleanupOnlyOnceReceived ==
    [][ /\ (\E key \in DOMAIN packetCommitments[SrcChain] :
                key \notin DOMAIN packetCommitments'[SrcChain]) => last'.op = "CleanupPacket"
        /\ (Called("CleanupPacket") /\ packetCommitments' # packetCommitments) =>
            LET packet == last'.packet
                channel == channels[SrcChain][SrcEnd(packet)]
            IN  /\ packetCommitments'[SrcChain] = Del(packetCommitments[SrcChain], SrcSeqKey(packet))
                /\ channel.ordering \in {"ORDERED", "UNORDERED"}
                /\ channel.ordering = "ORDERED" =>
                      /\ DstEnd(packet) \in DOMAIN nextSequenceRecv[DstChain]
                      /\ nextSequenceRecv[DstChain][DstEnd(packet)] = last'.nextSequenceRecv
                      /\ nextSequenceRecv[DstChain][DstEnd(packet)] > packet.sequence
                /\ channel.ordering = "UNORDERED" =>
                      /\ DstSeqKey(packet) \in DOMAIN packetAcks[DstChain]
                      /\ packetAcks[DstChain][DstSeqKey(packet)]
                            = CommitAcknowledgement(last'.acknowledgement)
    ]_vars

\* C6 witness: a Cleanup has succeeded and the commitment of its packet is gone.
C6_Witness ==
    /\ last.op = "CleanupPacket"
    /\ last.err = OK
    /\ SrcSeqKey(last.packet) \notin DOMAIN packetCommitments[SrcChain]
    /\ SrcSeqKey(last.packet) \in cleaned

C8_ReceiveMutatesNothing ==
    [][ /\ Called("RecvPacket") =>
              /\ UNCHANGED <<config, stores>>
              /\ last'.err = OK => last'.ret = last'.packet
              /\ last'.err # OK => last'.ret = NilPacket
        /\ (nextSequenceRecv' # nextSequenceRecv \/ packetAcks' # packetAcks) =>
              last'.op = "PacketExecuted"
    ]_vars

\* C8 witness: a Receive of a sent packet has succeeded and returned the packet,
\* with the next-receive counter where it started.
C8_Witness ==
    /\ last.op = "RecvPacket"
    /\ last.err = OK
    /\ last.ret = last.packet
    /\ nextSequenceRecv[DstChain][DstEnd(last.packet)] = 1

\* C9 as stated: Send fails with PacketTimeout whenever the client's latest
\* height is at or past the packet's timeout height, Receive fails with
\* PacketTimeout whenever the current height is; no counter or commitment changes.
C9_TimeoutGuard_AsStated ==
    [][ /\ ( /\ Called("SendPacket")
             /\ ClientID \in DOMAIN clientStates[SrcChain]
             /\ clientStates[SrcChain][ClientID].latestHeight >= last'.packet.timeoutHeight ) =>
                last'.err = "ErrPacketTimeout" /\ UNCHANGED stores
        /\ (Called("RecvPacket") /\ blockHeight[DstChain] >= last'.packet.timeoutHeight) =>
                last'.err = "ErrPacketTimeout" /\ UNCHANGED stores
    ]_vars

\* C9 amended: a Send whose packet's timeout height the client's latest height
\* has reached, and a Receive whose packet's timeout height the current height
\* has reached, fail and change no counter or commitment; the error is
\* PacketTimeout when every earlier precondition of the operation holds.
C9_TimeoutGuard ==
    [][ /\ ( /\ Called("SendPacket")
             /\ ClientID \in DOMAIN clientStates[SrcChain]
             /\ clientStates[SrcChain][ClientID].latestHeight >= last'.packet.timeoutHeight ) =>
                /\ last'.err # OK
                /\ UNCHANGED stores
                /\ SendReachesTimeoutCheck(SrcChain, last'.packet) =>
                      last'.err = "ErrPacketTimeout"
        /\ (Called("RecvPacket") /\ blockHeight[DstChain] >= last'.packet.timeoutHeight) =>
                /\ last'.err # OK
                /\ UNCHANGED stores
                /\ RecvReachesTimeoutCheck(DstChain, last'.packet) =>
                      last'.err = "ErrPacketTimeout"
    ]_vars

\* C9 witness: a Send of a packet whose timeout height equals the client's
\* latest height has failed with PacketTimeout.
C9_Witness ==
    /\ last.op = "SendPacket"
    /\ last.err = "ErrPacketTimeout"
    /\ clientStates[SrcChain][ClientID].latestHeight = last.packet.timeoutHeight

\* C9 witness, Receive side: a Receive of a sent packet whose timeout height is
\* the current height has failed with PacketTimeout.
C9_WitnessReceive ==
    /\ last.op = "RecvPacket"
    /\ last.err = "ErrPacketTimeout"
    /\ blockHeight[DstChain] = last.packet.timeoutHeight
    /\ SrcSeqKey(last.packet) \in DOMAIN packetCommitments[SrcChain]

\* C10 as stated: Acknowledge and Cleanup fail with InvalidPacket whenever the
\* digest of the supplied packet's data is not the commitment stored at its key
\* (none stored included), and the stored commitments are left unchanged.
C10_TamperDetection_AsStated ==
    [][((Called("AcknowledgePacket") \/ Called("CleanupPacket"))
            /\ Tampered(SrcChain, last'.packet)) =>
        last'.err = "ErrInvalidPacket" /\ UNCHANGED packetCommitments
    ]_vars

\* C10 amended: when the digest of the supplied packet's data is not the
\* commitment stored at its key (none stored included), Acknowledge and Cleanup
\* fail and leave the stored commitments unchanged; the error is InvalidPacket
\* when the packet's channel exists and is OPEN and its connection is found (and,
\* for Acknowledge, is OPEN).
C10_TamperDetection ==
    [][ /\ (Called("AcknowledgePacket") /\ Tampered(SrcChain, last'.packet)) =>
              /\ last'.err # OK
              /\ UNCHANGED packetCommitments
              /\ SourceChannelUsable(SrcChain, last'.packet, TRUE) =>
                    last'.err = "ErrInvalidPacket"
        /\ (Called("CleanupPacket") /\ Tampered(SrcChain, last'.packet)) =>
              /\ last'.err # OK
              /\ UNCHANGED packetCommitments
              /\ SourceChannelUsable(SrcChain, last'.packet, FALSE) =>
                    last'.err = "ErrInvalidPacket"
    ]_vars

\* C10 witness: an Acknowledge of a packet with the key of a sent packet and other
\* data, with the acknowledgement the counterparty holds, has failed with
\* InvalidPacket.
C10_Witness ==
    /\ last.op = "AcknowledgePacket"
    /\ last.err = "ErrInvalidPacket"
    /\ DestinationIsCounterparty(channels[SrcChain][SrcEnd(last.packet)], last.packet)
    /\ SrcSeqKey(last.packet) \in DOMAIN packetCommitments[SrcChain]
    /\ Tampered(SrcChain, last.packet)
    /\ VerifyPacketAcknowledgement(SrcChain, last.packet.destinationPort,
                                   last.packet.destinationChannel, last.packet.sequence,
                                   last.acknowledgement)

\* C10 witness, Cleanup side: a Cleanup of an already cleaned-up packet, which the
\* counterparty has received, has failed with InvalidPacket.
C10_WitnessCleanup ==
    /\ last.op = "CleanupPacket"
    /\ last.err = "ErrInvalidPacket"
    /\ SrcSeqKey(last.packet) \in cleaned
    /\ CleanupVerify(SrcChain, channels[SrcChain][SrcEnd(last.packet)], last.packet,
                     last.nextSequenceRecv, last.acknowledgement) = OK
    /\ last.nextSequenceRecv > last.packet.sequence

\* The channel the packet is executed on exists, and an acknowledgement was
\* supplied or the channel is UNORDERED.
AckSuppliedOrUnordered(c, packet, acknowledgement) ==
    /\ DstEnd(packet) \in DOMAIN channels[c]
    /\ acknowledgement # NilAck \/ channels[c][DstEnd(packet)].ordering = "UNORDERED"

\* C11 as stated: Executed writes the acknowledgement commitment at (destination
\* port, destination channel, seq) if and only if an acknowledgement was supplied
\* or the channel is UNORDERED; an Executed with a non-nil acknowledgement on an
\* UNORDERED channel leaves the three sequence counters unchanged.
C11_AckWritten_AsStated ==
    [][\A packet \in RelayedPackets, ack \in Acks :
        ( /\ Called("PacketExecuted") /\ last'.packet = packet /\ last'.acknowledgement = ack
          /\ DstEnd(packet) \in DOMAIN channels[DstChain] ) =>
            /\ AckSuppliedOrUnordered(DstChain, packet, ack) =>
                  packetAcks'[DstChain] = Put(packetAcks[DstChain], DstSeqKey(packet),
                                              CommitAcknowledgement(ack))
            /\ ~AckSuppliedOrUnordered(DstChain, packet, ack) => UNCHANGED packetAcks
            /\ (channels[DstChain][DstEnd(packet)].ordering = "UNORDERED" /\ ack # NilAck) =>
                  UNCHANGED counters
    ]_vars

\* C11 amended: an Executed whose channel exists and is OPEN writes the
\* acknowledgement commitment at (destination port, destination channel, seq) if
\* and only if an acknowledgement was supplied or the channel is UNORDERED; any
\* other Executed writes none; an Executed with a non-nil acknowledgement on an
\* UNORDERED channel leaves the three sequence counters unchanged.
C11_AckWritten ==
    [][\A packet \in RelayedPackets, ack \in Acks :
        (Called("PacketExecuted") /\ last'.packet = packet /\ last'.acknowledgement = ack) =>
            LET open == /\ DstEnd(packet) \in DOMAIN channels[DstChain]
                        /\ channels[DstChain][DstEnd(packet)].state = "OPEN"
            IN  /\ (open /\ AckSuppliedOrUnordered(DstChain, packet, ack)) =>
                      packetAcks'[DstChain] = Put(packetAcks[DstChain], DstSeqKey(packet),
                                                  CommitAcknowledgement(ack))
                /\ ~(open /\ AckSuppliedOrUnordered(DstChain, packet, ack)) =>
                      UNCHANGED packetAcks
                /\ ( /\ DstEnd(packet) \in DOMAIN channels[DstChain]
                     /\ channels[DstChain][DstEnd(packet)].ordering = "UNORDERED"
                     /\ ack # NilAck ) => UNCHANGED counters
    ]_vars

\* C11 witness: on an UNORDERED channel whose counters are where they started, an
\* Executed with an acknowledgement has stored its commitment.
C11_Witness ==
    /\ last.op = "PacketExecuted"
    /\ last.err = OK
    /\ last.acknowledgement # NilAck
    /\ channels[DstChain][DstEnd(last.packet)].ordering = "UNORDERED"
    /\ GetPacketAcknowledgement(DstChain, last.packet.destinationPort,
                                last.packet.destinationChannel, last.packet.sequence)
          = CommitAcknowledgement(last.acknowledgement)
    /\ DstEnd(last.packet) \in DOMAIN nextSequenceRecv[DstChain]
    /\ nextSequenceRecv[DstChain][DstEnd(last.packet)] = 1

\* C11 witness, ORDERED side: a successful Executed without acknowledgement on an
\* ORDERED channel has left no acknowledgement commitment.
C11_WitnessOrdered ==
    /\ last.op = "PacketExecuted"
    /\ last.err = OK
    /\ last.acknowledgement = NilAck
    /\ channels[DstChain][DstEnd(last.packet)].ordering = "ORDERED"
    /\ DstSeqKey(last.packet) \notin DOMAIN packetAcks[DstChain]

\* The preconditions of Send as the specification numbers them (the two
\* destination checks are one precondition); a precondition that reads a record
\* an earlier one found missing counts as not met.
SendPreconditionHolds(i, c, packet) ==
    LET end == SrcEnd(packet)
        hasChannel == end \in DOMAIN channels[c]
        hasConnection == ConnectionID \in DOMAIN connections[c]
        hasClient == ClientID \in DOMAIN clientStates[c]
        hasCounter == end \in DOMAIN nextSequenceSend[c]
    IN  CASE i = 1 -> ValidateBasic(packet)
          [] i = 2 -> hasChannel
          [] i = 3 -> hasChannel /\ channels[c][end].state # "CLOSED"
          [] i = 4 -> hasChannel /\ DestinationIsCounterparty(channels[c][end], packet)
          [] i = 5 -> hasConnection
          [] i = 6 -> hasConnection /\ connections[c][ConnectionID].state # "UNINITIALIZED"
          [] i = 7 -> hasClient
          [] i = 8 -> hasClient /\ clientStates[c][ClientID].latestHeight < packet.timeoutHeight
          [] i = 9 -> hasCounter
          [] i = 10 -> hasCounter /\ packet.sequence = nextSequenceSend[c][end]

\* The error of each precondition, in the stated order.
SendPreconditionErrors ==
    << "ErrInvalidPacketBasic", "ErrChannelNotFound", "ErrInvalidChannelState", "ErrInvalidPacket",
       "ErrConnectionNotFound", "ErrInvalidConnectionState", "ErrConsensusStateNotFound",
       "ErrPacketTimeout", "ErrSequenceSendNotFound", "ErrInvalidPacket" >>

SendViolated(c, packet) ==
    {i \in DOMAIN SendPreconditionErrors : ~SendPreconditionHolds(i, c, packet)}

\* C12: Send returns the error of the earliest violated precondition in the
\* stated order, and succeeds exactly when none is violated.
C12_SendCheckOrder ==
    [][\A packet \in Packets :
        (Called("SendPacket") /\ last'.packet = packet) =>
            LET violated == SendViolated(SrcChain, packet) IN
            IF violated = {} THEN last'.err = OK
            ELSE \E i \in violated :
                    /\ \A j \in violated : i <= j
                    /\ last'.err = SendPreconditionErrors[i]
    ]_vars

\* C12 witness: a Send that violates several preconditions at once (a packet
\* already timed out and of the wrong sequence, say) has returned its error.
C12_Witness ==
    /\ last.op = "SendPacket"
    /\ last.err = "ErrPacketTimeout"
    /\ {8, 10} \subseteq SendViolated(SrcChain, last.packet)

\* C12 witness: a Send on a CLOSED channel without usable connection, client or
\* counter has returned InvalidChannelState.
C12_WitnessClosed ==
    /\ last.op = "SendPacket"
    /\ last.err = "ErrInvalidChannelState"
    /\ {3, 6, 7, 9} \subseteq SendViolated(SrcChain, last.packet)

\* C13 as stated: Send on a source channel that does not exist fails with
\* ChannelNotFound, Send on an existing channel with no next-send counter fails
\* with SequenceSendNotFound, Executed on an ORDERED channel with no next-receive
\* counter fails with SequenceReceiveNotFound; no counter is created and no send
\* commitment written.
C13_MissingIsError_AsStated ==
    [][ /\ (Called("SendPacket") /\ SrcEnd(last'.packet) \notin DOMAIN channels[SrcChain]) =>
              last'.err = "ErrChannelNotFound" /\ UNCHANGED <<counters, packetCommitments>>
        /\ ( /\ Called("SendPacket")
             /\ SrcEnd(last'.packet) \in DOMAIN channels[SrcChain]
             /\ SrcEnd(last'.packet) \notin DOMAIN nextSequenceSend[SrcChain] ) =>
              last'.err = "ErrSequenceSendNotFound" /\ UNCHANGED <<counters, packetCommitments>>
        /\ ( /\ Called("PacketExecuted")
             /\ DstEnd(last'.packet) \in DOMAIN channels[DstChain]
             /\ channels[DstChain][DstEnd(last'.packet)].ordering = "ORDERED"
             /\ DstEnd(last'.packet) \notin DOMAIN nextSequenceRecv[DstChain] ) =>
              last'.err = "ErrSequenceReceiveNotFound" /\ UNCHANGED <<counters, packetCommitments>>
    ]_vars

\* C13 amended: each of these calls fails, creates no counter and writes no send
\* commitment; the error is ChannelNotFound when the packet is structurally
\* valid, SequenceSendNotFound when preconditions 1-8 of Send hold, and
\* SequenceReceiveNotFound when the channel is OPEN.
C13_MissingIsError ==
    [][ /\ (Called("SendPacket") /\ SrcEnd(last'.packet) \notin DOMAIN channels[SrcChain]) =>
              /\ last'.err # OK
              /\ UNCHANGED <<counters, packetCommitments>>
              /\ ValidateBasic(last'.packet) => last'.err = "ErrChannelNotFound"
        /\ ( /\ Called("SendPacket")
             /\ SrcEnd(last'.packet) \in DOMAIN channels[SrcChain]
             /\ SrcEnd(last'.packet) \notin DOMAIN nextSequenceSend[SrcChain] ) =>
              /\ last'.err # OK
              /\ UNCHANGED <<counters, packetCommitments>>
              /\ ( /\ SendReachesTimeoutCheck(SrcChain, last'.packet)
                   /\ clientStates[SrcChain][ClientID].latestHeight < last'.packet.timeoutHeight ) =>
                    last'.err = "ErrSequenceSendNotFound"
        /\ ( /\ Called("PacketExecuted")
             /\ DstEnd(last'.packet) \in DOMAIN channels[DstChain]
             /\ channels[DstChain][DstEnd(last'.packet)].ordering = "ORDERED"
             /\ DstEnd(last'.packet) \notin DOMAIN nextSequenceRecv[DstChain] ) =>
              /\ last'.err # OK
              /\ UNCHANGED <<counters, packetCommitments>>
              /\ channels[DstChain][DstEnd(last'.packet)].state = "OPEN" =>
                    last'.err = "ErrSequenceReceiveNotFound"
    ]_vars

\* C13 witness: a Send on a channel without next-send counter has failed with
\* SequenceSendNotFound, and there still is no counter.
C13_Witness ==
    /\ last.op = "SendPacket"
    /\ last.err = "ErrSequenceSendNotFound"
    /\ SrcEnd(last.packet) \in DOMAIN channels[SrcChain]
    /\ SrcEnd(last.packet) \notin DOMAIN nextSequenceSend[SrcChain]

\* C13 witness, Executed side: an Executed on an ORDERED channel without
\* next-receive counter has failed with SequenceReceiveNotFound.
C13_WitnessExecuted ==
    /\ last.op = "PacketExecuted"
    /\ last.err = "ErrSequenceReceiveNotFound"
    /\ DstEnd(last.packet) \notin DOMAIN nextSequenceRecv[DstChain]

\* C14: the next-send counter of every channel is at least 1 in every reachable
\* state, also after the Send of the largest representable sequence number.
\* (Fails: the increment wraps to 0.)
C14_NextSendAtLeastOne ==
    \A c \in Chains : \A end \in DOMAIN nextSequenceSend[c] : nextSequenceSend[c][end] >= 1

\* Outcomes that abort the caller (Go panics), as opposed to returned errors.
FatalOutcomes == {"PanicInvalidChannelOrdering", "PanicNilAcknowledgement"}
ValidOrders == {"ORDERED", "UNORDERED"}

\* Every check of Cleanup before the switch on the ordering passes.
CleanupReachesOrderingSwitch(c, packet, nextSeqRecv) ==
    /\ SourceChannelUsable(c, packet, FALSE)
    /\ DestinationIsCounterparty(channels[c][SrcEnd(packet)], packet)
    /\ nextSeqRecv > packet.sequence
    /\ ~Tampered(c, packet)

\* C15: Cleanup ends in the fatal invalid-ordering outcome for no channel whose
\* ordering is ORDERED or UNORDERED; it does for a channel whose ordering is
\* outside the enum once every earlier check has passed, and then the outcome is
\* an abort and not a returned error, no packet is returned and no commitment is
\* deleted.
C15_InvalidOrderingFatal ==
    [][Called("CleanupPacket") =>
        LET packet == last'.packet
            end == SrcEnd(packet)
        IN  /\ last'.err = "PanicInvalidChannelOrdering" =>
                  /\ end \in DOMAIN channels[SrcChain]
                  /\ channels[SrcChain][end].ordering \notin ValidOrders
                  /\ last'.err \in FatalOutcomes
                  /\ last'.ret = NilPacket
                  /\ UNCHANGED <<config, stores>>
            /\ (end \in DOMAIN channels[SrcChain]
                    /\ channels[SrcChain][end].ordering \in ValidOrders) =>
                  last'.err \notin FatalOutcomes
            /\ ( /\ CleanupReachesOrderingSwitch(SrcChain, packet, last'.nextSequenceRecv)
                 /\ channels[SrcChain][end].ordering \notin ValidOrders ) =>
                  last'.err = "PanicInvalidChannelOrdering"
    ]_vars

\* C15 witness: on a channel whose ordering is outside the enum, a Cleanup of a
\* sent packet has ended in the fatal outcome and the commitment is still there.
C15_Witness ==
    /\ last.op = "CleanupPacket"
    /\ last.err = "PanicInvalidChannelOrdering"
    /\ channels[SrcChain][SrcEnd(last.packet)].ordering = "NONE"
    /\ SrcSeqKey(last.packet) \in DOMAIN packetCommitments[SrcChain]

\* C16 as stated: on a CLOSED channel any Send fails with InvalidChannelState,
\* whatever the packet's other fields, and changes no state.
C16_ClosedChannel_AsStated ==
    [][( /\ Called("SendPacket")
         /\ SrcEnd(last'.packet) \in DOMAIN channels[SrcChain]
         /\ channels[SrcChain][SrcEnd(last'.packet)].state = "CLOSED" ) =>
            last'.err = "ErrInvalidChannelState" /\ UNCHANGED <<config, stores>>
    ]_vars

\* C16 amended: on a CLOSED channel any Send fails and changes no state, and the
\* error is InvalidChannelState for every packet that passes structural
\* validation, whatever its other fields.
C16_ClosedChannel ==
    [][( /\ Called("SendPacket")
         /\ SrcEnd(last'.packet) \in DOMAIN channels[SrcChain]
         /\ channels[SrcChain][SrcEnd(last'.packet)].state = "CLOSED" ) =>
            /\ last'.err # OK
            /\ UNCHANGED <<config, stores>>
            /\ ValidateBasic(last'.packet) => last'.err = "ErrInvalidChannelState"
    ]_vars

\* C16 witness: on a CLOSED channel, a Send of a packet with a wrong destination
\* has failed with InvalidChannelState.
C16_Witness ==
    /\ last.op = "SendPacket"
    /\ last.err = "ErrInvalidChannelState"
    /\ channels[SrcChain][SrcEnd(last.packet)].state = "CLOSED"
    /\ ~DestinationIsCounterparty(channels[SrcChain][SrcEnd(last.packet)], last.packet)

\* C17 as stated: a Cleanup with a next_sequence_recv that is not greater than
\* the packet's sequence fails with InvalidPacket and deletes no commitment.
C17_CleanupBeforeReceipt_AsStated ==
    [][(Called("CleanupPacket") /\ last'.nextSequenceRecv <= last'.packet.sequence) =>
        last'.err = "ErrInvalidPacket" /\ UNCHANGED <<config, stores>>
    ]_vars

\* C17 amended: a Cleanup with a next_sequence_recv that is not greater than the
\* packet's sequence fails and deletes no commitment, whatever the verification
\* collaborator would say; the error is InvalidPacket when the packet's source
\* channel exists and is OPEN and its connection is found.
C17_CleanupBeforeReceipt ==
    [][(Called("CleanupPacket") /\ last'.nextSequenceRecv <= last'.packet.sequence) =>
        /\ last'.err # OK
        /\ last'.err # "ErrVerification"
        /\ UNCHANGED <<config, stores>>
        /\ SourceChannelUsable(SrcChain, last'.packet, FALSE) => last'.err = "ErrInvalidPacket"
    ]_vars

\* C17 witness: a Cleanup of a sent packet, which the counterparty would receive
\* and whose next-receive counter is the supplied one (verification would pass),
\* has failed with InvalidPacket for its next_sequence_recv.
C17_Witness ==
    /\ last.op = "CleanupPacket"
    /\ last.err = "ErrInvalidPacket"
    /\ last.nextSequenceRecv <= last.packet.sequence
    /\ ~Tampered(SrcChain, last.packet)
    /\ RecvPacketErr(DstChain, last.packet) = OK
    /\ CleanupVerify(SrcChain, channels[SrcChain][SrcEnd(last.packet)], last.packet,
                     last.nextSequenceRecv, last.acknowledgement) = OK

\* An identifier of the grammar; a string with a character that is not white space.
SyntacticallyValid(id) == id # <<>> /\ "/" \notin {id[i] : i \in 1..Len(id)}
NonBlank(str) == \E i \in 1..Len(str) : str[i] # " "

\* C18: channel validation accepts a Channel if and only if its state and
\* ordering are non-empty enum values, it has exactly one connection hop and that
\* hop is a valid identifier, its version is not blank after trimming white
\* space, and its counterparty's port and channel identifiers are valid; every
\* other Channel is rejected with an error.
C18_ChannelValidity ==
    validated # NoCall =>
        LET ch == validated.channel
            wellFormed ==
                /\ ch.state \in States
                /\ ch.ordering \in ValidOrders
                /\ Len(ch.connectionHops) = 1
                /\ SyntacticallyValid(ch.connectionHops[1])
                /\ NonBlank(ch.version)
                /\ SyntacticallyValid(ch.counterparty.portID)
                /\ SyntacticallyValid(ch.counterparty.channelID)
        IN  /\ wellFormed <=> validated.err = OK
            /\ ~wellFormed => validated.err \in {"ErrInvalidChannel", "ErrInvalidCounterparty"}

\* C18 witness: a Channel with two connection hops, the first one valid, and
\* every other field valid has been rejected.
C18_Witness ==
    /\ validated # NoCall
    /\ validated.err = "ErrInvalidChannel"
    /\ validated.channel.state = "OPEN"
    /\ validated.channel.ordering = "ORDERED"
    /\ validated.channel.connectionHops = << <<"a">>, <<"a">> >>
    /\ validated.channel.version = <<" ", "v">>
    /\ CounterpartyValidateBasic(validated.channel.counterparty) = OK

\* C18 witness, accepting side: a Channel whose version has white space around
\* another character has been accepted.
C18_WitnessAccepted ==
    /\ validated # NoCall
    /\ validated.err = OK
    /\ validated.channel.version = <<" ", "v">>

\* C19: the commitment stores are write-once until deleted: no step replaces the
\* packet commitment or the acknowledgement commitment stored at a key by another
\* digest.  (Fails: PacketExecuted stores the acknowledgement commitment again.)
C19_WriteOnce ==
    [][\A c \in Chains :
        /\ \A key \in DOMAIN packetCommitments[c] \cap DOMAIN packetCommitments'[c] :
              packetCommitments'[c][key] = packetCommitments[c][key]
        /\ \A key \in DOMAIN packetAcks[c] \cap DOMAIN packetAcks'[c] :
              packetAcks'[c][key] = packetAcks[c][key]
    ]_vars

C21_CountersMonotonic ==
    [][\A c \in Chains :
        /\ DOMAIN nextSequenceSend'[c] = DOMAIN nextSequenceSend[c]
        /\ DOMAIN nextSequenceRecv'[c] = DOMAIN nextSequenceRecv[c]
        /\ DOMAIN nextSequenceAck'[c] = DOMAIN nextSequenceAck[c]
        /\ \A end \in DOMAIN nextSequenceSend[c] :
              nextSequenceSend'[c][end] # nextSequenceSend[c][end] =>
                  /\ nextSequenceSend'[c][end] = nextSequenceSend[c][end] + 1
                  /\ Called("SendPacket")
                  /\ last'.err = OK
                  /\ end = SrcEnd(last'.packet)
        /\ \A end \in DOMAIN nextSequenceRecv[c] :
              nextSequenceRecv'[c][end] # nextSequenceRecv[c][end] =>
                  /\ nextSequenceRecv'[c][end] = nextSequenceRecv[c][end] + 1
                  /\ Called("PacketExecuted")
                  /\ last'.err = OK
                  /\ end = DstEnd(last'.packet)
                  /\ channels[c][end].ordering = "ORDERED"
        /\ \A end \in DOMAIN nextSequenceAck[c] :
              nextSequenceAck'[c][end] >= nextSequenceAck[c][end]
    ]_vars

\* The packet's commitment is stored on the sending ledger; some Cleanup of the
\* packet would succeed now.
Sent(packet) == ~Tampered(SrcChain, packet)
Removable(packet) ==
    \E nextSeqRecv \in 1..(MaxSeq + 1), ack \in ExecutedAcks :
        CleanupPacketErr(SrcChain, packet, nextSeqRecv, ack) = OK

\* C22: with a fair relayer, for every packet sent a Cleanup that
\* succeeds becomes possible, whether the counterparty executes the packet or the
\* packet has timed out there before being received.  (Fails: no Cleanup of a
\* packet that timed out before being received ever succeeds.)
C22_Reclaimable ==
    \A packet \in ReclaimPackets : Sent(packet) ~> Removable(packet)

\* C22, the part that holds: for a packet sent, a Cleanup that succeeds is
\* possible exactly once the counterparty has received and executed the packet; for a packet that
\* has timed out on the counterparty before being received, none is.
C22_ReclaimableOnDelivery ==
    \A packet \in ReclaimPackets :
        Sent(packet) =>
            /\ DstSeqKey(packet) \in delivered <=> Removable(packet)
            /\ blockHeight[DstChain] >= packet.timeoutHeight => ~Removable(packet)

\* C22 witness: a Cleanup of a packet the counterparty received and executed has
\* succeeded.
C22_Witness ==
    /\ last.op = "CleanupPacket"
    /\ last.err = OK
    /\ DstSeqKey(last.packet) \in delivered
    /\ SrcSeqKey(last.packet) \in cleaned

\* C22 witness, timeout side: a packet sent has failed RecvPacket with
\* PacketTimeout, and no Cleanup of it would succeed.
C22_WitnessTimeout ==
    /\ last.op = "RecvPacket"
    /\ last.err = "ErrPacketTimeout"
    /\ Sent(last.packet)
    /\ ~Removable(last.packet)

\* C23: Send rejects only a CLOSED channel: a Send with otherwise valid inputs
\* succeeds on a channel in state INIT or TRYOPEN, and Send fails with
\* InvalidChannelState on a CLOSED channel only.  Receive, Executed, Acknowledge
\* and Cleanup fail with InvalidChannelState in every channel state other than
\* OPEN, whatever their other inputs.
C23_StateGating ==
    [][\A packet \in Packets :
        /\ (Called("SendPacket") /\ last'.packet = packet) =>
              LET end == SrcEnd(packet) IN
              /\ ( /\ end \in DOMAIN channels[SrcChain]
                   /\ channels[SrcChain][end].state \in {"INIT", "TRYOPEN"}
                   /\ SendViolated(SrcChain, packet) = {} ) =>
                      /\ last'.err = OK
                      /\ SrcSeqKey(packet) \in DOMAIN packetCommitments'[SrcChain]
              /\ last'.err = "ErrInvalidChannelState" =>
                      channels[SrcChain][end].state = "CLOSED"
        /\ ( /\ Called("RecvPacket") \/ Called("PacketExecuted")
             /\ last'.packet = packet
             /\ DstEnd(packet) \in DOMAIN channels[DstChain]
             /\ channels[DstChain][DstEnd(packet)].state # "OPEN" ) =>
                last'.err = "ErrInvalidChannelState"
        /\ ( /\ Called("AcknowledgePacket") \/ Called("CleanupPacket")
             /\ last'.packet = packet
             /\ SrcEnd(packet) \in DOMAIN channels[SrcChain]
             /\ channels[SrcChain][SrcEnd(packet)].state # "OPEN" ) =>
                last'.err = "ErrInvalidChannelState"
    ]_vars

\* C23 witness: a Send on a channel in state INIT or TRYOPEN has succeeded.
C23_Witness ==
    /\ last.op = "SendPacket"
    /\ last.err = OK
    /\ channels[SrcChain][SrcEnd(last.packet)].state \in {"INIT", "TRYOPEN"}

\* C23 witness, the other operations: on a channel in state INIT or TRYOPEN an
\* Acknowledge of a packet sent there has failed with InvalidChannelState.
C23_WitnessAcknowledge ==
    /\ last.op = "AcknowledgePacket"
    /\ last.err = "ErrInvalidChannelState"
    /\ channels[SrcChain][SrcEnd(last.packet)].state \in {"INIT", "TRYOPEN"}
    /\ ~Tampered(SrcChain, last.packet)

\* C23 witness, receiving side: on a receiving end that is not OPEN a Receive
\* of a packet sent has failed with InvalidChannelState.
C23_WitnessReceive ==
    /\ last.op = "RecvPacket"
    /\ last.err = "ErrInvalidChannelState"
    /\ channels[DstChain][DstEnd(last.packet)].state # "OPEN"
    /\ ~Tampered(SrcChain, last.packet)

\* C24: in every reachable state and for every channel end, every sequence
\* number at which a packet commitment is stored is at least 1 and strictly
\* less than the end's next-send counter, and the number of the end's
\* commitments is at most next-send minus 1.  (Fails: the counter wraps to 0
\* below the commitments stored.)
C24_CommitmentsBelowCounter ==
    \A c \in Chains :
        /\ \A key \in DOMAIN packetCommitments[c] :
              /\ <<key[1], key[2]>> \in DOMAIN nextSequenceSend[c]
              /\ key[3] >= 1
              /\ key[3] < nextSequenceSend[c][<<key[1], key[2]>>]
        /\ \A end \in DOMAIN nextSequenceSend[c] :
              Cardinality({key \in DOMAIN packetCommitments[c] : <<key[1], key[2]>> = end})
                  <= nextSequenceSend[c][end] - 1

====
